---- MODULE Spec2Model ----
(***************************************************************************)
(* VideoDownloader (src/video_downloader.py): the PyQt controller          *)
(* VideoDownloaderApp, its two worker threads PreviewThread and            *)
(* DownloadThread, and the queued signal delivery between them.            *)
(*                                                                         *)
(* Text is modelled as a sequence of one-character strings, so that        *)
(* lower(), strip(), replace(), substring tests and float() are computed   *)
(* as the code computes them.  Percentages are kept in hundredths of a     *)
(* percent (10.05% is 1005), so the 0.1 threshold is 10.                   *)
(***************************************************************************)
EXTENDS Integers, Sequences, FiniteSets, TLC

(***************************************************************************)
(* Bounds of the model.                                                    *)
(***************************************************************************)
\* thread objects of each kind that may exist at once
AppThreads == 2

\* progress events one download task may emit
MaxProgress == 2

(***************************************************************************)
(* Text helpers.                                                           *)
(***************************************************************************)
ESC == "ESC"

UpperCase == <<"A","B","C","D","E","F","G","H","I","J","K","L","M",
               "N","O","P","Q","R","S","T","U","V","W","X","Y","Z">>

LowerCase == <<"a","b","c","d","e","f","g","h","i","j","k","l","m",
               "n","o","p","q","r","s","t","u","v","w","x","y","z">>

Digits == <<"0","1","2","3","4","5","6","7","8","9">>

Range(s) == {s[i] : i \in DOMAIN s}

\* str.lower() on one character
LowerChar(c) ==
    IF \E i \in DOMAIN UpperCase : UpperCase[i] = c
    THEN LowerCase[CHOOSE i \in DOMAIN UpperCase : UpperCase[i] = c]
    ELSE c

\* str.lower()
Lower(s) == [i \in DOMAIN s |-> LowerChar(s[i])]

\* the Python test `sub in s`
Contains(s, sub) ==
    \E i \in 1..(Len(s) - Len(sub) + 1) : SubSeq(s, i, i + Len(sub) - 1) = sub

\* str.replace(old, new) for a one-character old
RECURSIVE Replace(_, _, _)
Replace(s, old, new) ==
    IF s = <<>> THEN <<>>
    ELSE (IF Head(s) = old THEN new ELSE <<Head(s)>>) \o Replace(Tail(s), old, new)

RECURSIVE LStrip(_)
LStrip(s) == IF s # <<>> /\ Head(s) = " " THEN LStrip(Tail(s)) ELSE s

RECURSIVE RStrip(_)
RStrip(s) ==
    IF s # <<>> /\ s[Len(s)] = " " THEN RStrip(SubSeq(s, 1, Len(s) - 1)) ELSE s

\* str.strip()
Strip(s) == RStrip(LStrip(s))

\* character classes of the regular expression in clean_ansi_codes, each
\* restricted to the characters the texts of this model are written in
AnsiFe == Range(UpperCase) \cup {"@", "]", "_"}

AnsiParam == Range(Digits) \cup {":", ";", "<", "=", ">", "?"}

AnsiInter == {" ", "!", "#", "%", "&", "+", ",", "-", ".", "/"}

AnsiFinal == Range(UpperCase) \cup Range(LowerCase) \cup {"@", "[", "]", "_", "~"}

\* length of the longest prefix of s made of characters of class
RECURSIVE SpanLen(_, _)
SpanLen(s, class) ==
    IF s # <<>> /\ Head(s) \in class THEN 1 + SpanLen(Tail(s), class) ELSE 0

Drop(s, n) == SubSeq(s, n + 1, Len(s))

\* length of the escape sequence s starts with, 0 when it starts with none:
\* ESC and one character of AnsiFe, or ESC [ AnsiParam* AnsiInter* AnsiFinal
AnsiMatchLen(s) ==
    IF Len(s) < 2 \/ Head(s) # ESC THEN 0
    ELSE IF s[2] \in AnsiFe THEN 2
    ELSE IF s[2] # "[" THEN 0
    ELSE LET p == SpanLen(Drop(s, 2), AnsiParam)
             q == SpanLen(Drop(s, 2 + p), AnsiInter)
         IN  IF Len(s) >= 3 + p + q /\ s[3 + p + q] \in AnsiFinal
             THEN 3 + p + q
             ELSE 0

\* ansi_regex.sub: every escape sequence is removed
RECURSIVE clean_ansi_codes(_)
clean_ansi_codes(text) ==
    IF text = <<>> THEN <<>>
    ELSE LET n == AnsiMatchLen(text)
         IN  IF n > 0 THEN clean_ansi_codes(Drop(text, n))
             ELSE <<Head(text)>> \o clean_ansi_codes(Tail(text))

DigitValue(c) == (CHOOSE i \in DOMAIN Digits : Digits[i] = c) - 1

RECURSIVE DigitsValue(_)
DigitsValue(s) ==
    IF s = <<>> THEN 0
    ELSE DigitsValue(SubSeq(s, 1, Len(s) - 1)) * 10 + DigitValue(s[Len(s)])

\* float(s) is modelled for the decimal forms d+, d+.d* and .d+ (what the
\* progress text holds); on any other text it raises ValueError
FloatRaises(s) ==
    LET t    == Strip(s)
        dots == {i \in DOMAIN t : t[i] = "."}
    IN  \/ Cardinality(dots) > 1
        \/ \E i \in DOMAIN t : t[i] \notin Range(Digits) \cup {"."}
        \/ Len(t) - Cardinality(dots) = 0

\* float(s) in hundredths; fraction digits beyond the second are cut
ParseFloat(s) ==
    LET t    == Strip(s)
        dots == {i \in DOMAIN t : t[i] = "."}
        dot  == IF dots = {} THEN Len(t) + 1 ELSE CHOOSE i \in dots : TRUE
        ip   == SubSeq(t, 1, dot - 1)
        fp   == SubSeq(t, dot + 1, Len(t))
        fp2  == SubSeq(fp \o <<"0", "0">>, 1, 2)
    IN  DigitsValue(ip) * 100 + DigitsValue(fp2)

(***************************************************************************)
(* Error messages.  A message is named by an identifier; MessageText gives *)
(* its characters.  FfmpegMissing is raised by DownloadThread.run, the     *)
(* others stand for what the extraction library raises.                    *)
(***************************************************************************)
FfmpegMissing == "ffmpeg_missing"

RemoteMessages == {"sign_in", "login_required", "private_video", "timed_out"}

Messages == RemoteMessages \cup {FfmpegMissing}

MessageText(m) ==
    CASE m = FfmpegMissing ->
           <<"f","f","m","p","e","g",".","e","x","e"," ","i","s"," ","r","e",
             "q","u","i","r","e","d"," ","b","u","t"," ","n","o","t"," ","f",
             "o","u","n","d",".">>
      [] m = "sign_in" ->
           <<"E","R","R","O","R",":"," ","S","i","g","n"," ","i","n"," ","t",
             "o"," ","c","o","n","f","i","r","m"," ","y","o","u","r"," ","a",
             "g","e">>
      [] m = "login_required" ->
           <<"L","o","g","i","n"," ","R","e","q","u","i","r","e","d"," ","f",
             "o","r"," ","t","h","i","s"," ","v","i","d","e","o">>
      [] m = "private_video" ->
           <<"E","R","R","O","R",":"," ","P","r","i","v","a","t","e"," ","v",
             "i","d","e","o">>
      [] m = "timed_out" ->
           <<"C","o","n","n","e","c","t","i","o","n"," ","t","i","m","e","d",
             " ","o","u","t">>

KwSignIn == <<"s","i","g","n"," ","i","n">>

KwLoginRequired == <<"l","o","g","i","n"," ","r","e","q","u","i","r","e","d">>

\* the keyword list of is_not_found_error
NotFoundKeywords == {
    <<"v","i","d","e","o"," ","u","n","a","v","a","i","l","a","b","l","e">>,
    <<"n","o","t"," ","f","o","u","n","d">>,
    <<"c","o","n","t","e","n","t"," ","n","o","t"," ","a","v","a","i","l","a","b","l","e">>,
    <<"v","i","d","e","o"," ","d","o","e","s"," ","n","o","t"," ","e","x","i","s","t">>,
    <<"p","l","a","y","l","i","s","t"," ","d","o","e","s"," ","n","o","t"," ","e","x","i","s","t">>,
    <<"r","e","m","o","v","e","d">>,
    <<"p","r","i","v","a","t","e"," ","v","i","d","e","o">>,
    <<"u","n","a","v","a","i","l","a","b","l","e"," ","v","i","d","e","o">>,
    <<"n","o","t"," ","a","v","a","i","l","a","b","l","e">>,
    <<"s","i","g","n"," ","i","n">>,
    <<"l","o","g","i","n"," ","r","e","q","u","i","r","e","d">> }

is_not_found_error(error) ==
    LET error_lower == Lower(MessageText(error))
    IN  \E keyword \in NotFoundKeywords : Contains(error_lower, keyword)

\* a variant that knows the phrase "sign in" alone
is_auth_required_error_SignInOnly(error) ==
    Contains(Lower(MessageText(error)), KwSignIn)

is_auth_required_error(error) ==
    LET error_lower == Lower(MessageText(error))
    IN  Contains(error_lower, KwSignIn) \/ Contains(error_lower, KwLoginRequired)

(***************************************************************************)
(* Platforms and URLs.                                                     *)
(***************************************************************************)
Platforms == {"YouTube", "Facebook"}

\* what the user may have typed into url_input
Urls == {"empty", "blank", "youtube", "youtu_be", "fb_watch", "other"}

UrlText(u) ==
    CASE u = "empty" -> <<>>
      [] u = "blank" -> <<" ">>
      [] u = "youtube" -> <<"h","t","t","p","s",":","/","/","Y","o","u","T","u","b","e",".","c","o","m","/","p">>
      [] u = "youtu_be" -> <<"h","t","t","p","s",":","/","/","y","o","u","t","u",".","b","e","/","v">>
      [] u = "fb_watch" -> <<"h","t","t","p","s",":","/","/","f","b",".","w","a","t","c","h","/","v">>
      [] u = "other" -> <<"h","t","t","p","s",":","/","/","e","x","a","m","p","l","e",".","c","o","m","/","v">>

\* a variant that takes a host of either platform
is_valid_url_AnyPlatform(url, platform) ==
    LET url_lower == Lower(url)
    IN  \/ Contains(url_lower, <<"y","o","u","t","u","b","e",".","c","o","m">>)
        \/ Contains(url_lower, <<"y","o","u","t","u",".","b","e">>)
        \/ Contains(url_lower, <<"f","a","c","e","b","o","o","k",".","c","o","m">>)
        \/ Contains(url_lower, <<"f","b",".","w","a","t","c","h">>)

is_valid_url_for_platform(url, platform) ==
    LET url_lower == Lower(url)
    IN  IF platform = "YouTube"
        THEN \/ Contains(url_lower, <<"y","o","u","t","u","b","e",".","c","o","m">>)
             \/ Contains(url_lower, <<"y","o","u","t","u",".","b","e">>)
        ELSE IF platform = "Facebook"
        THEN \/ Contains(url_lower, <<"f","a","c","e","b","o","o","k",".","c","o","m">>)
             \/ Contains(url_lower, <<"f","b",".","w","a","t","c","h">>)
        ELSE FALSE

(***************************************************************************)
(* Progress events of the download library (the dict d handed to the       *)
(* progress hook).  A value that may be missing is <<>> when missing and    *)
(* <<v>> when it is v.                                                     *)
(***************************************************************************)
Missing == <<>>

Some(v) == <<v>>

RawEvents == {"p1005k", "p1012k", "p2500k", "p1005u", "p1012u", "p2500u",
              "unparsable", "bare", "finished", "error"}

\* a variant in which every event counts as "downloading"
EventStatus_AlwaysDownloading(d) == "downloading"

\* d['status']
EventStatus(d) ==
    CASE d = "finished" -> "finished"
      [] d = "error" -> "error"
      [] OTHER -> "downloading"

\* d['_percent_str'], when present
EventPercentStr(d) ==
    CASE d \in {"p1005k", "p1005u"} -> Some(<<" ","1","0",".","0","5","%">>)
      [] d \in {"p1012k", "p1012u"} -> Some(<<" ","1","0",".","1","2","%">>)
      [] d = "p2500k" -> Some(<<ESC,"[","0",";","9","4","m"," ","2","5",".","0","%",ESC,"[","0","m">>)
      [] d = "p2500u" -> Some(<<" ","2","5",".","0","%">>)
      [] d = "unparsable" -> Some(<<"U","n","k","n","o","w","n"," ","%">>)
      [] OTHER -> Missing

\* d['_speed_str'], when present
EventSpeedStr(d) ==
    CASE d \in {"p1005k", "p1012k"} -> Some(<<"1",".","5","M","i","B","/","s">>)
      [] d = "p2500k" -> Some(<<ESC,"[","0",";","3","2","m","1",".","5","M","i","B","/","s",ESC,"[","0","m">>)
      [] OTHER -> Missing

DefaultPercentStr == <<"0","%">>

UnknownSpeed == <<"U","n","k","n","o","w","n"," ","s","p","e","e","d">>

\* d.get(key, default)
GetOr(value, default) == IF value = Missing THEN default ELSE value[1]

\* percent_str of progress_hook
PercentStr(d) ==
    Strip(Replace(clean_ansi_codes(GetOr(EventPercentStr(d), DefaultPercentStr)),
                  "%", <<>>))

\* speed of progress_hook
SpeedStr(d) ==
    Strip(Replace(clean_ansi_codes(GetOr(EventSpeedStr(d), UnknownSpeed)),
                  "i", <<"i", "B">>))

(***************************************************************************)
(* Extraction results (the dict info of info_signal) and playlist entries. *)
(* None stands for Python's None, Absent for the missing value of a key    *)
(* whose values are names.                                                 *)
(***************************************************************************)
None == "None"

Absent == "absent"

\* a 'height' key that is present with the value None
NoneHeight == Some(-1)

Infos == {"video", "bare_video", "none_height", "playlist2", "playlist1", "playlist0",
          "multi_video"}

Entries == {"entry1", "entry2"}

\* the dict an identifier stands for
Item(i) ==
    CASE i = "video" ->
           [type |-> "video", entries |-> Missing, url |-> "url_v",
            thumbnails |-> << [url |-> "t480", height |-> Some(480)],
                              [url |-> "t1080", height |-> Some(1080)],
                              [url |-> "t360", height |-> Some(360)] >>,
            thumbnail |-> "t_default"]
      [] i = "none_height" ->
           [type |-> "video", entries |-> Missing, url |-> "url_n",
            thumbnails |-> << [url |-> "t_none", height |-> NoneHeight],
                              [url |-> "t720", height |-> Some(720)] >>,
            thumbnail |-> "t_default"]
      [] i = "bare_video" ->
           [type |-> "video", entries |-> Missing, url |-> "url_b",
            thumbnails |-> <<>>, thumbnail |-> Absent]
      [] i = "playlist2" ->
           [type |-> "playlist", entries |-> Some(<<"entry1", "entry2">>),
            url |-> Absent, thumbnails |-> <<>>, thumbnail |-> Absent]
      [] i = "playlist1" ->
           [type |-> "playlist", entries |-> Some(<<"entry1">>),
            url |-> Absent, thumbnails |-> <<>>, thumbnail |-> Absent]
      [] i = "playlist0" ->
           [type |-> "playlist", entries |-> Some(<<>>),
            url |-> Absent, thumbnails |-> <<>>, thumbnail |-> Absent]
      [] i = "multi_video" ->
           [type |-> "multi_video", entries |-> Some(<<"entry1", "entry2">>),
            url |-> "url_m", thumbnails |-> <<>>, thumbnail |-> "t_multi"]
      [] i = "entry1" ->
           [type |-> "url", entries |-> Missing, url |-> "url_1",
            thumbnails |-> << [url |-> "t_a", height |-> Missing],
                              [url |-> "t_b", height |-> Some(90)] >>,
            thumbnail |-> Absent]
      [] i = "entry2" ->
           [type |-> "url", entries |-> Missing, url |-> "url_2",
            thumbnails |-> <<>>, thumbnail |-> Absent]

\* x.get('height', 0): the default stands in for a missing key only
HeightOf(x) == GetOr(x.height, 0)

\* sorted raises TypeError when it compares a key that is None, which it
\* does as soon as the list has two candidates
SortRaises(thumbnails) ==
    /\ Len(thumbnails) >= 2
    /\ \E k \in DOMAIN thumbnails : thumbnails[k].height = NoneHeight

\* sorted(..., key=height, reverse=True)[0]: Python's sort is stable and
\* reverse keeps the order of equal keys, so this is the first candidate
\* of the greatest height
FirstTallest(thumbnails) ==
    LET best == CHOOSE k \in DOMAIN thumbnails :
                  /\ \A j \in DOMAIN thumbnails :
                        HeightOf(thumbnails[j]) <= HeightOf(thumbnails[k])
                  /\ \A j \in 1..(k - 1) :
                        HeightOf(thumbnails[j]) < HeightOf(thumbnails[k])
    IN  thumbnails[best]

get_best_thumbnail(info) ==
    IF Item(info).thumbnails # <<>>
    THEN IF SortRaises(Item(info).thumbnails)
         THEN None  \* the except clause
         ELSE FirstTallest(Item(info).thumbnails).url
    ELSE IF Item(info).thumbnail = Absent THEN None ELSE Item(info).thumbnail

(***************************************************************************)
(* State.                                                                  *)
(***************************************************************************)
VARIABLES
    ffmpeg_exists,     \* os.path.exists(ffmpeg_path)
    cookies_exists,    \* os.path.exists('cookies.txt')
    dir_exists,        \* whether the folder named in output_input exists
    platform_combo,    \* platform_combo.currentText()
    url_input,         \* url_input.text()
    output_input,      \* output_input.text(): the user's folder or the temp dir
    video_info,        \* self.video_info, a list of items
    video_list,        \* the QListWidget: item count, selected rows, visibility
    download_button,   \* download_button.isEnabled()
    progress_bar,      \* progress_bar.value()
    last_percentage,   \* self.last_percentage, in hundredths
    replaced_percentage,  \* the value the last assignment to last_percentage replaced
    status_log,        \* the lines the last step appended to the status_log widget
    video_title,       \* the kind of text video_title shows
    loading_label,     \* loading_label.isVisible()
    thumbnail_label,   \* what thumbnail_label shows
    thumbnail_shown,   \* the URL display_thumbnail was last called with
    ui_thread_http,    \* whether a handler on the UI thread has called requests.get
    preview_threads,   \* the PreviewThread objects
    download_threads,  \* the DownloadThread objects
    event_queue        \* signals queued for delivery on the UI thread

env_vars == <<ffmpeg_exists, cookies_exists>>

ui_vars == <<dir_exists, platform_combo, url_input, output_input, video_info,
             video_list, download_button, progress_bar, last_percentage, replaced_percentage,
             video_title, loading_label, thumbnail_label, thumbnail_shown, ui_thread_http>>

vars == <<env_vars, ui_vars, status_log, preview_threads, download_threads,
          event_queue>>

Threads == DOMAIN preview_threads

\* last_percentage = -1
LastPercentageReset == -100

\* the 0.1 of progress_hook
Threshold == 10

Line(kind) == [kind |-> kind, percent |-> <<>>, speed |-> <<>>]

\* a step that appends nothing to status_log
NoLines == <<>>

\* status_log.append(line)
Append1(log, line) == Append(log, line)

\* current: whether self.preview_thread refers to this object
NewPreviewThread(platform) ==
    [pc |-> "extract1", platform |-> platform, calls |-> 0, errors |-> <<>>,
     outcomes |-> <<>>, delivered |-> 0, current |-> TRUE]

NewDownloadThread(urls, output_path, platform, playlist) ==
    [pc |-> "run", urls |-> urls, output_path |-> output_path,
     platform |-> platform, playlist |-> playlist, calls |-> 0,
     progress |-> 0, errors |-> <<>>, outcomes |-> <<>>, delivered |-> 0]

NoPreviewThread ==
    [NewPreviewThread("YouTube") EXCEPT !.pc = "idle", !.current = FALSE]

NoDownloadThread ==
    [NewDownloadThread(<<>>, "folder", "YouTube", FALSE) EXCEPT !.pc = "idle"]

\* the application after construction, with room for n thread objects of
\* each kind
Startup(n) ==
    /\ ffmpeg_exists \in BOOLEAN
    /\ cookies_exists \in BOOLEAN
    /\ dir_exists \in BOOLEAN
    /\ platform_combo = "YouTube"
    /\ url_input = "empty"
    /\ output_input = "folder"
    /\ video_info = <<>>
    /\ video_list = [count |-> 0, selected |-> {}, visible |-> TRUE]
    /\ download_button = FALSE
    /\ progress_bar = 0
    /\ last_percentage = LastPercentageReset
    /\ replaced_percentage = LastPercentageReset
    /\ status_log = NoLines
    /\ video_title = "not_loaded"
    /\ loading_label = FALSE
    /\ thumbnail_label = "empty"
    /\ thumbnail_shown = None
    /\ ui_thread_http = FALSE
    /\ preview_threads = [i \in 1..n |-> NoPreviewThread]
    /\ download_threads = [i \in 1..n |-> NoDownloadThread]
    /\ event_queue = <<>>

\* a signal emitted by a worker: queued, since the emitter is not the UI thread
Signal(sig, from, arg) == [sig |-> sig, from |-> from, arg |-> arg]

PreviewSignals == {"info", "preview_error"}

DownloadSignals == {"progress", "finished", "download_error"}

\* whether queue holds a signal of thread object i
Pending(queue, sigs, i) ==
    \E k \in DOMAIN queue : queue[k].sig \in sigs /\ queue[k].from = i

\* a thread object whose run has ended and whose signals have all been
\* delivered takes no further part: its place is free for a new object
Retire(t, none, pending) ==
    IF t.pc \in {"finished", "crashed"} /\ ~pending THEN none ELSE t

FreePreview(i) == preview_threads[i].pc = "idle"

FreeDownload(i) == download_threads[i].pc = "idle"

(***************************************************************************)
(* The user.                                                               *)
(***************************************************************************)
\* typing into url_input
EditUrl(u) ==
    /\ u # url_input
    /\ url_input' = u
    /\ UNCHANGED <<env_vars, dir_exists, platform_combo, output_input, video_info,
                   video_list, download_button, progress_bar, last_percentage, replaced_percentage,
                   video_title, loading_label, thumbnail_label, thumbnail_shown,
                   ui_thread_http, preview_threads, download_threads, event_queue>>
    /\ status_log' = NoLines

\* choosing a platform: currentTextChanged runs update_ui_for_platform
update_ui_for_platform(p) ==
    /\ p # platform_combo
    /\ platform_combo' = p
    /\ video_list' = [video_list EXCEPT !.visible = (p = "YouTube")]
    /\ UNCHANGED <<env_vars, dir_exists, url_input, output_input, video_info,
                   download_button, progress_bar, last_percentage, replaced_percentage,
                   video_title, loading_label, thumbnail_label, thumbnail_shown,
                   ui_thread_http, preview_threads, download_threads, event_queue>>
    /\ status_log' = NoLines

\* clicking a row of the visible list (MultiSelection toggles it)
SelectItem(row) ==
    /\ video_list.visible
    /\ row \in 1..video_list.count
    /\ video_list' = [video_list EXCEPT !.selected =
                        IF row \in @ THEN @ \ {row} ELSE @ \cup {row}]
    /\ UNCHANGED <<env_vars, dir_exists, platform_combo, url_input, output_input,
                   video_info, download_button, progress_bar, last_percentage, replaced_percentage,
                   video_title, loading_label, thumbnail_label, thumbnail_shown,
                   ui_thread_http, preview_threads, download_threads, event_queue>>
    /\ status_log' = NoLines

(***************************************************************************)
(* Preview: start_preview on the UI thread, PreviewThread.run on a worker. *)
(***************************************************************************)
\* the lowest free thread object
FirstFree(free) == CHOOSE i \in free : \A j \in free : i <= j

start_preview ==
    LET url      == Strip(UrlText(url_input))
        platform == platform_combo
        free     == {i \in Threads : FreePreview(i)}
    IN  IF url = <<>>
        THEN /\ status_log' = Append1(NoLines, Line("enter_url"))
             /\ UNCHANGED <<video_info, video_list, download_button, thumbnail_label, thumbnail_shown,
                            video_title, loading_label, preview_threads>>
        ELSE IF ~is_valid_url_for_platform(url, platform)
        THEN /\ status_log' = Append1(NoLines, Line("invalid_url"))
             /\ UNCHANGED <<video_info, video_list, download_button, thumbnail_label, thumbnail_shown,
                            video_title, loading_label, preview_threads>>
        ELSE /\ free # {}
             /\ video_info' = <<>>
             /\ video_list' = [video_list EXCEPT !.count = 0, !.selected = {}]
             /\ download_button' = FALSE
             /\ thumbnail_label' = "empty"
             /\ UNCHANGED thumbnail_shown
             /\ video_title' = "loading"
             /\ loading_label' = TRUE
             /\ status_log' = Append1(NoLines, Line("fetching"))
             /\ preview_threads' =
                  [i \in Threads |->
                      IF i = FirstFree(free)
                      THEN NewPreviewThread(platform)
                      ELSE [preview_threads[i] EXCEPT !.current = FALSE]]

\* a click on the Preview button
ClickPreview ==
    /\ start_preview
    /\ UNCHANGED <<env_vars, dir_exists, platform_combo, url_input, output_input,
                   progress_bar, last_percentage, replaced_percentage, ui_thread_http,
                   download_threads, event_queue>>

\* a variant of the retry condition that leaves the platform out
ShouldRetry_AnyPlatform(platform, e) ==
    LET error_str == Lower(MessageText(e))
    IN  /\ Contains(error_str, KwSignIn) \/ Contains(error_str, KwLoginRequired)
        /\ cookies_exists

\* the retry condition of both run methods, evaluated on the first failure
ShouldRetry(platform, e) ==
    LET error_str == Lower(MessageText(e))
    IN  /\ platform = "YouTube"
        /\ Contains(error_str, KwSignIn) \/ Contains(error_str, KwLoginRequired)
        /\ cookies_exists

\* self.<sig>.emit(arg) of thread object t: a terminal signal
Emit(t, sig, arg) == [t EXCEPT !.outcomes = Append(@, [sig |-> sig, arg |-> arg])]

\* the signals t2 has emitted and t had not, as queued events from object i
NewSignals(i, t, t2) ==
    [k \in 1..(Len(t2.outcomes) - Len(t.outcomes)) |->
        Signal(t2.outcomes[Len(t.outcomes) + k].sig, i,
               t2.outcomes[Len(t.outcomes) + k].arg)]

\* the first with block of PreviewThread.run raised e: the except clause
PreviewExcept(t, e) ==
    IF ShouldRetry(t.platform, e)
    THEN [t EXCEPT !.pc = "extract2", !.errors = Append(@, e)]
    ELSE Emit([t EXCEPT !.pc = "finished", !.errors = Append(@, e)],
              "preview_error", e)

\* the with block of the retry raised e2: the inner except clause
PreviewExcept2(t, e2) ==
    Emit([t EXCEPT !.pc = "finished", !.errors = Append(@, e2)],
         "preview_error", e2)

\* one step of PreviewThread i takes its object from t to t2
PreviewStep(i, t2) ==
    /\ event_queue' = event_queue \o NewSignals(i, preview_threads[i], t2)
    /\ preview_threads' =
         [preview_threads EXCEPT
            ![i] = Retire(t2, NoPreviewThread, Pending(event_queue', PreviewSignals, i))]
    /\ status_log' = NoLines
    /\ UNCHANGED <<env_vars, ui_vars, download_threads>>

\* ydl.extract_info returns info, which is emitted inside the with block, or raises
PreviewExtract(i, infos, errors) ==
    LET t == [preview_threads[i] EXCEPT !.calls = @ + 1]
    IN  /\ preview_threads[i].pc = "extract1"
        /\ \/ \E info \in infos :
                PreviewStep(i, Emit([t EXCEPT !.pc = "exit1"], "info", info))
           \/ \E e \in errors : PreviewStep(i, PreviewExcept(t, e))

\* leaving the with block after the emit: YoutubeDL.__exit__ returns, or raises
\* inside the try
PreviewExit(i, errors) ==
    LET t == preview_threads[i]
    IN  /\ t.pc = "exit1"
        /\ \/ PreviewStep(i, [t EXCEPT !.pc = "finished"])
           \/ \E e \in errors : PreviewStep(i, PreviewExcept(t, e))

\* the retry with cookies.txt: extract_info returns or raises
PreviewRetry(i, infos, errors) ==
    LET t == [preview_threads[i] EXCEPT !.calls = @ + 1]
    IN  /\ preview_threads[i].pc = "extract2"
        /\ \/ \E info \in infos :
                PreviewStep(i, Emit([t EXCEPT !.pc = "exit2"], "info", info))
           \/ \E e2 \in errors : PreviewStep(i, PreviewExcept2(t, e2))

\* leaving the retry's with block
PreviewRetryExit(i, errors) ==
    LET t == preview_threads[i]
    IN  /\ t.pc = "exit2"
        /\ \/ PreviewStep(i, [t EXCEPT !.pc = "finished"])
           \/ \E e2 \in errors : PreviewStep(i, PreviewExcept2(t, e2))

(***************************************************************************)
(* Preview results on the UI thread.                                       *)
(***************************************************************************)
\* the head of the queue is signal sig: it is taken off and its slot runs
Deliver(sig) ==
    /\ event_queue # <<>>
    /\ Head(event_queue).sig = sig
    /\ event_queue' = Tail(event_queue)

\* the terminal callback of the thread object the head of the queue came
\* from has run
Delivered(threads, none, sigs) ==
    LET i == Head(event_queue).from
    IN  [threads EXCEPT
           ![i] = Retire([@ EXCEPT !.delivered = @ + 1], none,
                         Pending(Tail(event_queue), sigs, i))]

\* display_thumbnail: requests.get on the calling thread, which succeeds (ok)
\* or raises; no request without a URL
display_thumbnail(thumbnail_url, ok, log) ==
    IF thumbnail_url # None
    THEN /\ ui_thread_http' = TRUE
         /\ thumbnail_shown' = thumbnail_url
         /\ IF ok
            THEN thumbnail_label' = "pixmap" /\ status_log' = log
            ELSE /\ thumbnail_label' = "not_available"
                 /\ status_log' = Append1(log, Line("thumbnail_failed"))
    ELSE /\ thumbnail_label' = "not_available"
         /\ thumbnail_shown' = thumbnail_url
         /\ status_log' = log
         /\ UNCHANGED ui_thread_http

\* a variant that takes every result with entries as a playlist
IsPlaylistInfo_AnyEntries(platform, info) ==
    platform = "YouTube" /\ Item(info).entries # Missing

IsPlaylistInfo(platform, info) ==
    /\ platform = "YouTube"
    /\ Item(info).entries # Missing
    /\ Item(info).type = "playlist"

handle_preview_info(info, fetches) ==
    LET platform == platform_combo
    IN  /\ loading_label' = FALSE
        /\ download_button' = TRUE
        /\ IF IsPlaylistInfo(platform, info)
           THEN /\ video_info' = Item(info).entries[1]
                /\ video_title' = "playlist"
                /\ video_list' = [video_list EXCEPT !.count = Len(video_info'),
                                                    !.selected = {}]
                /\ IF video_info' # <<>>
                   THEN \E ok \in fetches :
                          display_thumbnail(get_best_thumbnail(video_info'[1]),
                                            ok, NoLines)
                   ELSE /\ status_log' = NoLines
                        /\ UNCHANGED <<thumbnail_label, thumbnail_shown, ui_thread_http>>
           ELSE /\ video_info' = <<info>>
                /\ video_title' = "video"
                /\ \E ok \in fetches :
                     display_thumbnail(get_best_thumbnail(info), ok, NoLines)
                /\ video_list' =
                     IF platform = "Facebook"
                     THEN [count |-> 0, selected |-> {}, visible |-> FALSE]
                     ELSE [video_list EXCEPT !.count = 1, !.selected = {}]

\* info_signal reaches its slot
DeliverInfo(fetches) ==
    /\ Deliver("info")
    /\ handle_preview_info(Head(event_queue).arg, fetches)
    /\ preview_threads' = Delivered(preview_threads, NoPreviewThread, PreviewSignals)
    /\ UNCHANGED <<env_vars, dir_exists, platform_combo, url_input, output_input,
                   progress_bar, last_percentage, replaced_percentage, download_threads>>

\* the status line both error handlers choose
ErrorLine(error) ==
    IF is_not_found_error(error)
    THEN IF is_auth_required_error(error)
         THEN Line("not_found_with_cookie_hint")
         ELSE Line("not_found")
    ELSE Line("an_error_occurred")

handle_preview_error(error) ==
    /\ loading_label' = FALSE
    /\ status_log' = Append1(NoLines, ErrorLine(error))
    /\ video_title' = "not_loaded"
    /\ download_button' = FALSE

\* the error_signal of a PreviewThread reaches its slot
DeliverPreviewError ==
    /\ Deliver("preview_error")
    /\ handle_preview_error(Head(event_queue).arg)
    /\ preview_threads' = Delivered(preview_threads, NoPreviewThread, PreviewSignals)
    /\ UNCHANGED <<env_vars, dir_exists, platform_combo, url_input, output_input,
                   video_info, video_list, progress_bar, last_percentage, replaced_percentage,
                   thumbnail_label, thumbnail_shown, ui_thread_http, download_threads>>

(***************************************************************************)
(* Download: download_video on the UI thread, DownloadThread.run on a      *)
(* worker.                                                                 *)
(***************************************************************************)
\* the rows of a selection in list order
RECURSIVE RowsInOrder(_)
RowsInOrder(rows) ==
    IF rows = {} THEN <<>>
    ELSE LET r == CHOOSE x \in rows : \A y \in rows : x <= y
         IN  <<r>> \o RowsInOrder(rows \ {r})

\* a variant of is_playlist that leaves the platform out
IsPlaylistDownload_AnyPlatform(platform) == Len(video_info) > 1

\* is_playlist of download_video
IsPlaylistDownload(platform) == platform = "YouTube" /\ Len(video_info) > 1

\* download_video from its third check on, with the folder at output_path
\* present and the status log at log
DispatchDownload(url, output_path, platform, log) ==
    LET is_playlist == IsPlaylistDownload(platform)
        rows        == RowsInOrder(video_list.selected)
        free        == {i \in Threads : FreeDownload(i)}
        selected_videos ==
            IF is_playlist
            THEN [k \in DOMAIN rows |-> Item(video_info[rows[k]]).url]
            ELSE <<url>>
    IN  IF is_playlist /\ rows = <<>>
        THEN /\ status_log' = Append1(log, Line("select_at_least_one"))
             /\ UNCHANGED <<download_button, progress_bar, last_percentage, replaced_percentage,
                            download_threads>>
        ELSE IF is_playlist /\ \E k \in DOMAIN rows : selected_videos[k] = Absent
        THEN \* KeyError: the outer except clause
             /\ status_log' = Append1(log, Line("failed_to_start_download"))
             /\ download_button' = TRUE
             /\ UNCHANGED <<progress_bar, last_percentage, replaced_percentage, download_threads>>
        ELSE /\ free # {}
             /\ download_button' = FALSE
             /\ progress_bar' = 0
             /\ last_percentage' = LastPercentageReset
             /\ replaced_percentage' = last_percentage
             /\ status_log' = Append1(log, Line("starting_download"))
             /\ download_threads' =
                  [download_threads EXCEPT ![FirstFree(free)] =
                     NewDownloadThread(selected_videos, output_path, platform,
                                       is_playlist)]

\* the outcomes of os.makedirs
MakedirsOutcomes == {"created", "PermissionError", "OSError"}

\* a variant that hands the folder on without looking for it
download_video_NoMakedirs(makedirs) ==
    LET url         == Strip(UrlText(url_input))
        output_path == output_input
        platform    == platform_combo
    IN  IF url = <<>>
        THEN /\ status_log' = Append1(NoLines, Line("enter_url"))
             /\ UNCHANGED <<dir_exists, output_input, download_button, progress_bar,
                            last_percentage, replaced_percentage, download_threads>>
        ELSE IF ~is_valid_url_for_platform(url, platform)
        THEN /\ status_log' = Append1(NoLines, Line("invalid_url"))
             /\ UNCHANGED <<dir_exists, output_input, download_button, progress_bar,
                            last_percentage, replaced_percentage, download_threads>>
        ELSE /\ DispatchDownload(url_input, output_path, platform, NoLines)
             /\ UNCHANGED <<dir_exists, output_input>>

download_video(makedirs) ==
    LET url         == Strip(UrlText(url_input))
        output_path == output_input
        platform    == platform_combo
        exists      == output_path = "temp" \/ dir_exists
    IN  IF url = <<>>
        THEN /\ status_log' = Append1(NoLines, Line("enter_url"))
             /\ UNCHANGED <<dir_exists, output_input, download_button, progress_bar,
                            last_percentage, replaced_percentage, download_threads>>
        ELSE IF ~is_valid_url_for_platform(url, platform)
        THEN /\ status_log' = Append1(NoLines, Line("invalid_url"))
             /\ UNCHANGED <<dir_exists, output_input, download_button, progress_bar,
                            last_percentage, replaced_percentage, download_threads>>
        ELSE IF exists
        THEN /\ DispatchDownload(url_input, output_path, platform, NoLines)
             /\ UNCHANGED <<dir_exists, output_input>>
        ELSE IF makedirs = "created"
        THEN /\ dir_exists' = TRUE
             /\ DispatchDownload(url_input, output_path, platform, NoLines)
             /\ UNCHANGED output_input
        ELSE IF makedirs = "PermissionError"
        THEN /\ output_input' = "temp"
             /\ DispatchDownload(url_input, "temp", platform,
                                 Append1(NoLines, Line("using_temp_directory")))
             /\ UNCHANGED dir_exists
        ELSE \* any other exception of makedirs: the outer except clause
             /\ status_log' = Append1(NoLines, Line("failed_to_start_download"))
             /\ download_button' = TRUE
             /\ UNCHANGED <<dir_exists, output_input, progress_bar, last_percentage, replaced_percentage,
                            download_threads>>

\* a click on the Download button, which takes clicks only while enabled
ClickDownload(outcomes) ==
    /\ download_button
    /\ \E makedirs \in outcomes : download_video(makedirs)
    /\ UNCHANGED <<env_vars, platform_combo, url_input, video_info, video_list,
                   video_title, loading_label, thumbnail_label, thumbnail_shown, ui_thread_http,
                   preview_threads, event_queue>>

\* a variant in which the signals of a step overtake those already queued
DownloadStep_SignalsFirst(i, t2) ==
    /\ event_queue' = NewSignals(i, download_threads[i], t2) \o event_queue
    /\ download_threads' =
         [download_threads EXCEPT
            ![i] = Retire(t2, NoDownloadThread, Pending(event_queue', DownloadSignals, i))]
    /\ status_log' = NoLines
    /\ UNCHANGED <<env_vars, ui_vars, preview_threads>>

\* one step of DownloadThread i takes its object from t to t2
DownloadStep(i, t2) ==
    /\ event_queue' = event_queue \o NewSignals(i, download_threads[i], t2)
    /\ download_threads' =
         [download_threads EXCEPT
            ![i] = Retire(t2, NoDownloadThread, Pending(event_queue', DownloadSignals, i))]
    /\ status_log' = NoLines
    /\ UNCHANGED <<env_vars, ui_vars, preview_threads>>

\* the try block of DownloadThread.run raised e: the except clause.  When the
\* exception came before ydl_opts was bound, taking the retry raises
\* UnboundLocalError out of run, which ends without a signal.
DownloadExcept(t, e) ==
    IF ShouldRetry(t.platform, e)
    THEN IF t.calls = 0
         THEN [t EXCEPT !.pc = "crashed", !.errors = Append(@, e)]
         ELSE [t EXCEPT !.pc = "download2", !.calls = @ + 1,
                        !.errors = Append(@, e)]
    ELSE Emit([t EXCEPT !.pc = "finished", !.errors = Append(@, e)],
              "download_error", e)

\* a variant of the inner except clause that reports the first failure
DownloadExcept2_FirstError(t, e2) ==
    Emit([t EXCEPT !.pc = "finished", !.errors = Append(@, e2)],
         "download_error", t.errors[1])

\* the retry raised e2: the inner except clause
DownloadExcept2(t, e2) ==
    Emit([t EXCEPT !.pc = "finished", !.errors = Append(@, e2)],
         "download_error", e2)

\* a variant of run without the ffmpeg.exe check
FfmpegCheck_Omitted(t) == [t EXCEPT !.pc = "download1", !.calls = @ + 1]

\* the ffmpeg.exe check that opens run; when it passes ydl.download is called
FfmpegCheck(t) ==
    IF ~ffmpeg_exists
    THEN DownloadExcept(t, FfmpegMissing)
    ELSE [t EXCEPT !.pc = "download1", !.calls = @ + 1]

DownloadRun(i) ==
    /\ download_threads[i].pc = "run"
    /\ DownloadStep(i, FfmpegCheck(download_threads[i]))

\* ydl.download is running: the library calls progress_hook with d, which
\* emits progress_signal
DownloadProgress(i, d) ==
    /\ download_threads[i].pc \in {"download1", "download2"}
    /\ download_threads[i].progress < MaxProgress
    /\ download_threads' = [download_threads EXCEPT ![i].progress = @ + 1]
    /\ event_queue' = Append(event_queue, Signal("progress", i, d))
    /\ status_log' = NoLines
    /\ UNCHANGED <<env_vars, ui_vars, preview_threads>>

\* the first ydl.download returns, and finished_signal is emitted, or raises
DownloadEnd(i, errors) ==
    LET t == download_threads[i]
    IN  /\ t.pc = "download1"
        /\ \/ DownloadStep(i, Emit([t EXCEPT !.pc = "finished"], "finished", None))
           \/ \E e \in errors : DownloadStep(i, DownloadExcept(t, e))

\* the ydl.download of the retry returns or raises
DownloadRetryEnd(i, errors) ==
    LET t == download_threads[i]
    IN  /\ t.pc = "download2"
        /\ \/ DownloadStep(i, Emit([t EXCEPT !.pc = "finished"], "finished", None))
           \/ \E e2 \in errors : DownloadStep(i, DownloadExcept2(t, e2))

(***************************************************************************)
(* Download signals on the UI thread.                                      *)
(***************************************************************************)
\* QProgressBar.setValue ignores a value outside its range 0..100
SetValue(bar, value) == IF value \in 0..100 THEN value ELSE bar

\* a variant that shows an event only for its speed
ShouldShow_SpeedOnly(percentage, speed) ==
    speed # UnknownSpeed

\* a variant that shows every change of the percentage
ShouldShow_AnyChange(percentage, speed) ==
    percentage # last_percentage \/ speed # UnknownSpeed

\* a variant that applies the threshold alone
ShouldShow_ThresholdOnly(percentage, speed) ==
    percentage >= last_percentage + Threshold

\* the condition under which progress_hook shows a parsed percentage
ShouldShow(percentage, speed) ==
    percentage >= last_percentage + Threshold \/ speed # UnknownSpeed

\* a variant in which a percentage text that does not parse counts as 0
ParsedEvents_InvalidAsZero ==
    [d \in RawEvents |->
        [percent_str |-> PercentStr(d),
         speed       |-> SpeedStr(d),
         raises      |-> FALSE,
         percentage  |-> IF FloatRaises(PercentStr(d))
                         THEN 0
                         ELSE ParseFloat(PercentStr(d))]]

\* what progress_hook reads from each event: percent_str, speed, whether
\* float(percent_str) raises ValueError and, when it does not, its value
ParsedEvents ==
    [d \in RawEvents |->
        [percent_str |-> PercentStr(d),
         speed       |-> SpeedStr(d),
         raises      |-> FloatRaises(PercentStr(d)),
         percentage  |-> IF FloatRaises(PercentStr(d))
                         THEN LastPercentageReset
                         ELSE ParseFloat(PercentStr(d))]]

progress_hook(d) ==
    LET percent_str == ParsedEvents[d].percent_str
        speed       == ParsedEvents[d].speed
        percentage  == ParsedEvents[d].percentage
        line(kind)  == [kind |-> kind, percent |-> percent_str, speed |-> speed]
    IN  IF EventStatus(d) = "downloading"
        THEN IF ParsedEvents[d].raises
             THEN /\ status_log' = Append1(NoLines, line("downloading_invalid"))
                  /\ UNCHANGED <<progress_bar, last_percentage, replaced_percentage>>
             ELSE IF ShouldShow(percentage, speed)
             THEN /\ progress_bar' = SetValue(progress_bar, percentage \div 100)
                  /\ status_log' = Append1(NoLines, line("downloading"))
                  /\ last_percentage' = percentage
                  /\ replaced_percentage' = last_percentage
             ELSE /\ status_log' = NoLines
                  /\ UNCHANGED <<progress_bar, last_percentage, replaced_percentage>>
        ELSE IF EventStatus(d) = "finished"
        THEN /\ status_log' = Append1(NoLines, Line("finished_processing"))
             /\ UNCHANGED <<progress_bar, last_percentage, replaced_percentage>>
        ELSE /\ status_log' = NoLines
             /\ UNCHANGED <<progress_bar, last_percentage, replaced_percentage>>

\* progress_signal reaches its slot
DeliverProgress ==
    /\ Deliver("progress")
    /\ progress_hook(Head(event_queue).arg)
    /\ UNCHANGED <<env_vars, dir_exists, platform_combo, url_input, output_input,
                   video_info, video_list, download_button, video_title,
                   loading_label, thumbnail_label, thumbnail_shown, ui_thread_http,
                   preview_threads, download_threads>>

\* a variant that leaves the download button as it is
handle_error_LeavesButton(error) ==
    /\ status_log' = Append1(NoLines, ErrorLine(error))
    /\ UNCHANGED download_button

handle_error(error) ==
    /\ status_log' = Append1(NoLines, ErrorLine(error))
    /\ download_button' = TRUE

\* the error_signal of a DownloadThread reaches its slot
DeliverDownloadError ==
    /\ Deliver("download_error")
    /\ handle_error(Head(event_queue).arg)
    /\ download_threads' =
         Delivered(download_threads, NoDownloadThread, DownloadSignals)
    /\ UNCHANGED <<env_vars, dir_exists, platform_combo, url_input, output_input,
                   video_info, video_list, progress_bar, last_percentage, replaced_percentage,
                   video_title, loading_label, thumbnail_label, thumbnail_shown, ui_thread_http,
                   preview_threads>>

download_finished ==
    /\ status_log' = Append1(NoLines, Line("download_complete"))
    /\ download_button' = TRUE
    /\ progress_bar' = 100

\* finished_signal reaches its slot
DeliverFinished ==
    /\ Deliver("finished")
    /\ download_finished
    /\ download_threads' =
         Delivered(download_threads, NoDownloadThread, DownloadSignals)
    /\ UNCHANGED <<env_vars, dir_exists, platform_combo, url_input, output_input,
                   video_info, video_list, last_percentage, replaced_percentage, video_title,
                   loading_label, thumbnail_label, thumbnail_shown, ui_thread_http, preview_threads>>

(***************************************************************************)
(* The application: the user, the two kinds of worker and the event loop.  *)
(* Each kind of step takes the sets its inputs are drawn from.             *)
(***************************************************************************)
PreviewThreadStep(infos, errors, exit_errors) ==
    \/ \E i \in Threads : PreviewExtract(i, infos, errors)
    \/ \E i \in Threads : PreviewExit(i, exit_errors)
    \/ \E i \in Threads : PreviewRetry(i, infos, errors)
    \/ \E i \in Threads : PreviewRetryExit(i, exit_errors)

DownloadThreadStep(errors) ==
    \/ \E i \in Threads : DownloadRun(i)
    \/ \E i \in Threads : DownloadEnd(i, errors)
    \/ \E i \in Threads : DownloadRetryEnd(i, errors)

ProgressStep(events) ==
    \/ \E i \in Threads : \E d \in events : DownloadProgress(i, d)
    \/ DeliverProgress

EventLoopStep(fetches) ==
    \/ DeliverInfo(fetches)
    \/ DeliverPreviewError
    \/ DeliverDownloadError
    \/ DeliverFinished

\* no thread object of either kind is left
Quiet ==
    \A i \in Threads :
        preview_threads[i].pc = "idle" /\ download_threads[i].pc = "idle"

\* a user who starts one task at a time
PatientPreview == Quiet /\ ClickPreview

PatientDownload(makedirs) == Quiet /\ ClickDownload(makedirs)

(***************************************************************************)
(* Spec: the application as a whole.  The user clicks at any moment; the   *)
(* folder, ffmpeg.exe and cookies.txt exist, downloads report no progress, *)
(* and the library answers with one result or one message.                 *)
(***************************************************************************)
Init == Startup(AppThreads) /\ dir_exists /\ ffmpeg_exists /\ cookies_exists

Next ==
    \/ EditUrl("youtu_be")
    \/ \E p \in Platforms : update_ui_for_platform(p)
    \/ ClickPreview
    \/ ClickDownload({"created"})
    \/ PreviewThreadStep({"video"}, {"sign_in"}, {})
    \/ DownloadThreadStep({"sign_in"})
    \/ EventLoopStep({TRUE})

Spec == Init /\ [][Next]_vars

(***************************************************************************)
(* SpecTask: every task followed through its run, one task at a time.  The *)
(* library's answers are drawn from all messages, also on leaving a with   *)
(* block, and downloads report progress.                                   *)
(***************************************************************************)
InitTask == Startup(AppThreads)

NextTask ==
    \/ \E u \in {"youtu_be", "fb_watch"} : EditUrl(u)
    \/ \E p \in Platforms : update_ui_for_platform(p)
    \/ PatientPreview
    \/ PatientDownload(MakedirsOutcomes)
    \/ PreviewThreadStep({"video"}, RemoteMessages, RemoteMessages)
    \/ DownloadThreadStep(RemoteMessages)
    \/ ProgressStep({"p1005k"})
    \/ EventLoopStep(BOOLEAN)

SpecTask == InitTask /\ [][NextTask]_vars

(***************************************************************************)
(* SpecProgress: the progress events of downloads that succeed, one task   *)
(* at a time, each event drawn from all of RawEvents.                      *)
(***************************************************************************)
InitProgress ==
    Startup(AppThreads) /\ dir_exists /\ ffmpeg_exists /\ cookies_exists

NextProgress ==
    \/ EditUrl("youtu_be")
    \/ PatientPreview
    \/ PatientDownload({"created"})
    \/ \E i \in Threads : PreviewExtract(i, {"video"}, {})
    \/ \E i \in Threads : PreviewExit(i, {})
    \/ \E i \in Threads : DownloadRun(i)
    \/ \E i \in Threads : DownloadEnd(i, {})
    \/ ProgressStep(RawEvents)
    \/ DeliverInfo({TRUE})
    \/ DeliverFinished

SpecProgress == InitProgress /\ [][NextProgress]_vars

(***************************************************************************)
(* SpecOverlap: downloads that overlap, with their progress events.  The   *)
(* user previews again while a download runs and then starts another; no   *)
(* two previews overlap and every task succeeds.                           *)
(***************************************************************************)
\* no PreviewThread object is left
NoPreviewLeft == \A i \in Threads : preview_threads[i].pc = "idle"

InitOverlap ==
    Startup(AppThreads) /\ dir_exists /\ ffmpeg_exists /\ cookies_exists

NextOverlap ==
    \/ EditUrl("youtu_be")
    \/ NoPreviewLeft /\ ClickPreview
    \/ ClickDownload({"created"})
    \/ \E i \in Threads : PreviewExtract(i, {"video"}, {})
    \/ \E i \in Threads : PreviewExit(i, {})
    \/ \E i \in Threads : DownloadRun(i)
    \/ \E i \in Threads : DownloadEnd(i, {})
    \/ ProgressStep({"p1005u", "p2500u"})
    \/ DeliverInfo({TRUE})
    \/ DeliverFinished

SpecOverlap == InitOverlap /\ [][NextOverlap]_vars

(***************************************************************************)
(* SpecDispatch: what the two buttons start.  One task at a time; the user *)
(* types any of Urls, changes the platform and the selection; a preview    *)
(* answers with any of Infos; the folder may be missing and os.makedirs    *)
(* may fail; every download succeeds.                                      *)
(***************************************************************************)
\* rows of the list the user may click
MaxRows == 2

InitDispatch == Startup(AppThreads) /\ ffmpeg_exists /\ cookies_exists

NextDispatch ==
    \/ \E u \in Urls : EditUrl(u)
    \/ \E p \in Platforms : update_ui_for_platform(p)
    \/ \E row \in 1..MaxRows : SelectItem(row)
    \/ PatientPreview
    \/ PatientDownload(MakedirsOutcomes)
    \/ \E i \in Threads : PreviewExtract(i, Infos, {})
    \/ \E i \in Threads : PreviewExit(i, {})
    \/ \E i \in Threads : DownloadRun(i)
    \/ \E i \in Threads : DownloadEnd(i, {})
    \/ DeliverInfo(BOOLEAN)
    \/ DeliverFinished

SpecDispatch == InitDispatch /\ [][NextDispatch]_vars

(***************************************************************************)
(* SpecLive: one task at a time, with the scheduling the application runs  *)
(* under: a worker that can take a step takes one, and the event loop      *)
(* delivers the signal at the head of its queue.  ffmpeg.exe and           *)
(* cookies.txt may be missing; a download succeeds or fails, with or       *)
(* without the retry.                                                      *)
(***************************************************************************)
InitLive == Startup(AppThreads) /\ dir_exists

WorkerStepLive ==
    \/ PreviewThreadStep({"video"}, {"sign_in"}, {})
    \/ DownloadThreadStep({"sign_in", "timed_out"})

EventLoopStepLive == EventLoopStep({TRUE}) \/ DeliverProgress

NextLive ==
    \/ EditUrl("youtu_be")
    \/ PatientPreview
    \/ PatientDownload({"created"})
    \/ PreviewThreadStep({"video"}, {"sign_in"}, {})
    \/ DownloadThreadStep({"sign_in", "timed_out"})
    \/ ProgressStep({"p1005k"})
    \/ EventLoopStep({TRUE})

SpecLive ==
    /\ InitLive
    /\ [][NextLive]_vars
    /\ WF_vars(WorkerStepLive)
    /\ WF_vars(EventLoopStepLive)

(***************************************************************************)
(* Properties.                                                             *)
(***************************************************************************)
\* a preview, a download is in flight: started, its terminal callback not run
PreviewInFlight(i) ==
    preview_threads[i].pc # "idle" /\ preview_threads[i].delivered = 0

DownloadInFlight(i) ==
    download_threads[i].pc # "idle" /\ download_threads[i].delivered = 0

\* C1: at most one download task is in flight at any time, whatever the
\* user does in between (previews, platform changes, further clicks).
C1_AtMostOneDownload ==
    Cardinality({i \in Threads : DownloadInFlight(i)}) <= 1

\* C2: at most one preview task is in flight at any time.
C2_AtMostOnePreview ==
    Cardinality({i \in Threads : PreviewInFlight(i)}) <= 1

\* the run of thread object t has ended
Ended(t) == t.pc \in {"finished", "crashed"}

\* C3: every preview and every download task emits exactly one terminal
\* outcome (success or failure): never more than one, and one once its run
\* has ended.
C3_OneTerminalOutcome ==
    \A i \in Threads :
        /\ Len(preview_threads[i].outcomes) <= 1
        /\ Len(download_threads[i].outcomes) <= 1
        /\ Ended(preview_threads[i]) => Len(preview_threads[i].outcomes) = 1
        /\ Ended(download_threads[i]) => Len(download_threads[i].outcomes) = 1

\* C4: no handler running on the UI thread performs a network request.
C4_NoNetworkOnUiThread == ~ui_thread_http

\* the messages that ask for a sign-in
AuthMessages == {"sign_in", "login_required"}

\* the first invocation of t (the with block around the library call) raised,
\* in the circumstances of the retry
RetryDue(t) ==
    /\ t.errors # <<>>
    /\ t.platform = "YouTube"
    /\ t.errors[1] \in AuthMessages
    /\ cookies_exists

\* the retry branch of a PreviewThread, of a DownloadThread has been entered
PreviewRetried(t) == t.pc = "extract2" \/ t.calls = 2

DownloadRetried(t) == t.pc = "download2" \/ t.calls = 2

\* C5: a task invokes the library at most twice, and the second invocation
\* occurs if and only if the first failed, the platform is YouTube, the
\* message asks for a sign-in ("sign in" or "login required", in any case)
\* and cookies.txt exists.
C5_RetryIffDue ==
    \A i \in Threads :
        LET p == preview_threads[i]
            d == download_threads[i]
        IN  /\ p.calls <= 2
            /\ d.calls <= 2
            /\ PreviewRetried(p) <=> RetryDue(p)
            /\ DownloadRetried(d) <=> RetryDue(d)

\* a download was retried after "Login Required for this video"
C5_Witness ==
    \E i \in Threads :
        /\ download_threads[i].calls = 2
        /\ download_threads[i].errors[1] = "login_required"

\* the outcomes of t are those the retry policy prescribes: a failure shown
\* is the last one raised, the failure a retry follows is never shown, a
\* retry that succeeds ends in success, a retry that fails ends in its own
\* failure, and a failure without retry is shown as it is
FinalOutcomes(t, retried, failure, success) ==
    /\ \A k \in DOMAIN t.outcomes :
          t.outcomes[k].sig = failure =>
              /\ t.errors # <<>>
              /\ t.outcomes[k].arg = t.errors[Len(t.errors)]
              /\ Len(t.errors) = 1 => ~retried
    /\ retried /\ t.pc = "finished" /\ Len(t.errors) = 1 =>
          \E k \in DOMAIN t.outcomes : t.outcomes[k].sig = success
    /\ Len(t.errors) = 2 =>
          /\ retried
          /\ \E k \in DOMAIN t.outcomes :
                t.outcomes[k] = [sig |-> failure, arg |-> t.errors[2]]
    /\ ~retried /\ Len(t.errors) = 1 =>
          \E k \in DOMAIN t.outcomes :
              t.outcomes[k] = [sig |-> failure, arg |-> t.errors[1]]

\* C6: when a retry occurs its outcome is final (success if it succeeds,
\* else the failure of the retry, never the first failure); when none occurs
\* the first failure is reported unchanged.
C6_RetryOutcomeFinal ==
    \A i \in Threads :
        /\ FinalOutcomes(preview_threads[i], PreviewRetried(preview_threads[i]),
                         "preview_error", "info")
        /\ FinalOutcomes(download_threads[i], DownloadRetried(download_threads[i]),
                         "download_error", "finished")

\* a retried download failed with a message other than the first
C6_Witness ==
    \E i \in Threads :
        LET d == download_threads[i]
        IN  /\ Len(d.errors) = 2
            /\ d.errors[1] # d.errors[2]
            /\ d.outcomes = <<[sig |-> "download_error", arg |-> d.errors[2]]>>

\* C7: while ffmpeg.exe is absent a download worker makes no call to the
\* library, reports no progress, takes no retry and ends with the single
\* failure that names the missing file, on either platform and with or
\* without cookies.txt.
C7_FfmpegAbsent ==
    ~ffmpeg_exists =>
        \A i \in Threads :
            LET d == download_threads[i]
            IN  /\ d.calls = 0
                /\ d.progress = 0
                /\ d.pc \in {"idle", "run", "finished"}
                /\ \A k \in DOMAIN event_queue : event_queue[k].sig # "progress"
                /\ d.pc = "run" => d.outcomes = <<>>
                /\ d.pc = "finished" =>
                      d.outcomes =
                          <<[sig |-> "download_error", arg |-> FfmpegMissing]>>

\* a Facebook download ended on the missing ffmpeg.exe, cookies.txt present
C7_Witness ==
    /\ ~ffmpeg_exists
    /\ cookies_exists
    /\ \E i \in Threads :
          /\ download_threads[i].platform = "Facebook"
          /\ download_threads[i].outcomes =
                <<[sig |-> "download_error", arg |-> FfmpegMissing]>>

\* the UI thread takes the failure on the missing ffmpeg.exe off the queue
FfmpegFailureHandled ==
    /\ event_queue # <<>>
    /\ Head(event_queue).sig = "download_error"
    /\ Head(event_queue).arg = FfmpegMissing
    /\ event_queue' = Tail(event_queue)

\* C8: the failure on the missing ffmpeg.exe is presented as a category of
\* its own, never as "not found with this URL".
C8_FfmpegOwnCategory ==
    [][FfmpegFailureHandled =>
          \A k \in DOMAIN status_log' :
              status_log'[k].kind \notin {"not_found", "not_found_with_cookie_hint"}]_vars

\* the progress events with a percentage that parses, those of them with a
\* speed, and the percentage of each in hundredths
ValidEvents == {"p1005k", "p1012k", "p2500k", "p1005u", "p1012u", "p2500u", "bare"}

KnownSpeedEvents == {"p1005k", "p1012k", "p2500k"}

EventPercent(d) ==
    CASE d \in {"p1005k", "p1005u"} -> 1005
      [] d \in {"p1012k", "p1012u"} -> 1012
      [] d \in {"p2500k", "p2500u"} -> 2500
      [] OTHER -> 0

\* the UI thread takes a progress event off the queue
ProgressHandled ==
    /\ event_queue # <<>>
    /\ Head(event_queue).sig = "progress"
    /\ event_queue' = Tail(event_queue)

\* C9: within one download task last_percentage never decreases: each
\* value a progress event assigns is at least the value it replaces.
C9_Monotone ==
    [][ProgressHandled => last_percentage' >= last_percentage]_vars

\* C9, amended: last_percentage never decreases through an event whose speed
\* is unknown; an event with a known speed sets it to the percentage of the
\* event, lower or not.
C9_MonotoneUnknownSpeed ==
    [][ProgressHandled =>
          LET d == Head(event_queue).arg
          IN  IF d \in KnownSpeedEvents
              THEN last_percentage' = EventPercent(d)
              ELSE last_percentage' >= last_percentage]_vars

\* the event 10.05% with a known speed replaced 10.12%
C9_Witness ==
    /\ last_percentage = 1005
    /\ replaced_percentage = 1012
    /\ status_log # NoLines
    /\ status_log[1].kind = "downloading"
    /\ status_log[1].speed # UnknownSpeed

\* the handler shows event d, leaves it out
Shown(d) ==
    /\ last_percentage' = EventPercent(d)
    /\ progress_bar' = EventPercent(d) \div 100
    /\ Len(status_log') = 1
    /\ status_log'[1].kind = "downloading"

Suppressed ==
    /\ UNCHANGED <<last_percentage, progress_bar>>
    /\ status_log' = NoLines

Distance(a, b) == IF a >= b THEN a - b ELSE b - a

\* C10: of two consecutive valid events whose percentages differ by less
\* than 0.1 and whose speed is the same known speed, the second is left out
\* (10.05% shown, then 10.12% suppressed).
C10_CoalescedWithKnownSpeed ==
    [][(/\ ProgressHandled
        /\ Head(event_queue).arg \in KnownSpeedEvents
        /\ Len(status_log) = 1
        /\ status_log[1].kind = "downloading"
        /\ status_log[1].speed = SpeedStr(Head(event_queue).arg)
        /\ Distance(EventPercent(Head(event_queue).arg), last_percentage) < Threshold)
          => Suppressed]_vars

\* C10, amended: a valid event is left out exactly when its speed is unknown
\* and its percentage is less than 0.1 above last_percentage; an event with a
\* known speed is shown however close it is (10.05% then 10.12% at one speed
\* are both shown), and so is an event at least 0.1 higher (25.0%).
C10_CoalescedOnlyUnknownSpeed ==
    [][(ProgressHandled /\ Head(event_queue).arg \in ValidEvents) =>
          LET d == Head(event_queue).arg
          IN  IF \/ d \in KnownSpeedEvents
                 \/ EventPercent(d) >= last_percentage + Threshold
              THEN Shown(d)
              ELSE Suppressed]_vars

\* 10.12% with a known speed was shown over 10.05%
C10_Witness ==
    /\ last_percentage = 1012
    /\ replaced_percentage = 1005
    /\ progress_bar = 10
    /\ status_log # NoLines
    /\ status_log[1].speed # UnknownSpeed

\* the progress events of thread object i that wait in the queue
PendingProgress(i) ==
    Cardinality({k \in DOMAIN event_queue :
                    event_queue[k].sig = "progress" /\ event_queue[k].from = i})

\* the progress event at the head of the queue is the first of its task
FirstOfTask ==
    LET i == Head(event_queue).from
    IN  download_threads[i].progress = PendingProgress(i)

\* C11: every download task starts with fresh progress state: the first
\* valid "downloading" event of a task (percentage >= 0) is shown even with
\* unknown speed, and an event with unknown speed less than 0.1 above the
\* percentage shown last is left out.
C11_FreshProgress ==
    [][(ProgressHandled /\ Head(event_queue).arg \in ValidEvents) =>
          LET d == Head(event_queue).arg
          IN  /\ FirstOfTask => Shown(d)
              /\ (/\ d \notin KnownSpeedEvents
                  /\ EventPercent(d) >= last_percentage
                  /\ EventPercent(d) < last_percentage + Threshold) => Suppressed]_vars

\* C12: a "finished" progress event always produces the fixed notice
\* "Download finished, processing file...", whatever the progress state, and
\* leaves last_percentage and the progress bar as they are; an event whose
\* status is neither "downloading" nor "finished" appends nothing and
\* changes no state.
C12_FinishedAndOtherEvents ==
    [][ProgressHandled =>
          LET d == Head(event_queue).arg
          IN  /\ d = "finished" =>
                    /\ status_log' = <<Line("finished_processing")>>
                    /\ UNCHANGED <<last_percentage, progress_bar>>
              /\ d = "error" =>
                    /\ status_log' = NoLines
                    /\ UNCHANGED ui_vars]_vars

\* the notice was appended while progress of 10.12% was on display
C12_Witness ==
    /\ status_log = <<Line("finished_processing")>>
    /\ last_percentage = 1012
    /\ progress_bar = 10

\* the UI thread takes the failure of a preview or a download off the queue
ErrorHandled ==
    /\ event_queue # <<>>
    /\ Head(event_queue).sig \in {"preview_error", "download_error"}
    /\ event_queue' = Tail(event_queue)

\* the presentation each message is due: the messages with a sign-in phrase
\* are not-found with the hint, those with another not-found phrase are plain
\* not-found, the rest is generic
Presentation(m) ==
    CASE m \in {"sign_in", "login_required"} -> "not_found_with_cookie_hint"
      [] m \in {"private_video", "ffmpeg_missing"} -> "not_found"
      [] OTHER -> "an_error_occurred"

\* C13: every failure message a preview or download task delivers gets
\* exactly one presentation: not-found if its lower-cased text holds a
\* not-found or a sign-in phrase, generic otherwise, with the cookies.txt
\* hint if and only if it holds "sign in" or "login required".
C13_PresentationFollowsClassifier ==
    [][ErrorHandled =>
          status_log' = <<Line(Presentation(Head(event_queue).arg))>>]_vars

\* a failure was shown as not-found with the hint while Facebook is selected
C13_Witness ==
    /\ status_log = <<Line("not_found_with_cookie_hint")>>
    /\ platform_combo = "Facebook"

\* the URLs of Urls that name a host of the platform
ValidUrls(platform) ==
    IF platform = "YouTube" THEN {"youtube", "youtu_be"} ELSE {"fb_watch"}

\* this step starts a PreviewThread, a DownloadThread
PreviewStarted ==
    \E i \in Threads :
        preview_threads[i].pc = "idle" /\ preview_threads'[i].pc # "idle"

DownloadStarted ==
    \E i \in Threads :
        download_threads[i].pc = "idle" /\ download_threads'[i].pc # "idle"

\* this step is a click that was turned down for its URL
Rejected ==
    status_log' \in {<<Line("enter_url")>>, <<Line("invalid_url")>>}

\* C14: a PreviewThread or DownloadThread is started only if the trimmed URL
\* is not empty and names a host of the platform selected at that moment,
\* in any case of letters; a click turned down for its URL starts no worker
\* and leaves video_info, the download button and last_percentage alone.
C14_NoTaskForForeignUrl ==
    [][/\ (PreviewStarted \/ DownloadStarted) =>
              url_input \in ValidUrls(platform_combo)
       /\ Rejected =>
              UNCHANGED <<video_info, download_button, last_percentage,
                          preview_threads, download_threads>>]_vars

\* a click was turned down while a preview result was loaded and the
\* download button enabled
C14_Witness ==
    /\ status_log = <<Line("invalid_url")>>
    /\ download_button
    /\ video_info # <<>>
    /\ url_input \notin ValidUrls(platform_combo)

\* the UI thread takes a preview result off the queue
InfoHandled ==
    /\ event_queue # <<>>
    /\ Head(event_queue).sig = "info"
    /\ event_queue' = Tail(event_queue)

\* the results flagged as playlists, with their entries
FlaggedPlaylists == {"playlist2", "playlist1", "playlist0"}

PlaylistEntries(info) ==
    CASE info = "playlist2" -> <<"entry1", "entry2">>
      [] info = "playlist1" -> <<"entry1">>
      [] OTHER -> <<>>

\* C15: a preview result is taken as a collection only when the platform
\* is YouTube and the result has 'entries' and _type 'playlist'; in every
\* other case video_info holds exactly that one result, whatever entries
\* it contains.
C15_CollectionOnlyWhenFlagged ==
    [][InfoHandled =>
          LET info == Head(event_queue).arg
          IN  IF platform_combo = "YouTube" /\ info \in FlaggedPlaylists
              THEN video_info' = PlaylistEntries(info) /\ video_title' = "playlist"
              ELSE video_info' = <<info>> /\ video_title' = "video"]_vars

\* a flagged playlist arrived while Facebook was selected and is held as one
\* item
C15_Witness ==
    /\ video_info = <<"playlist2">>
    /\ video_title = "video"
    /\ platform_combo = "Facebook"

\* the url of each playlist entry
EntryUrl(entry) == IF entry = "entry1" THEN "url_1" ELSE "url_2"

\* the urls a DownloadThread started now is due: in the collection case the
\* urls of the entries at the selected rows, else the URL typed
UrlsDue(urls) ==
    IF platform_combo = "YouTube" /\ Len(video_info) > 1
    THEN /\ Len(urls) = Cardinality(video_list.selected)
         /\ \A row \in video_list.selected :
               /\ row \in DOMAIN video_info
               /\ \E k \in DOMAIN urls : urls[k] = EntryUrl(video_info[row])
    ELSE urls = <<url_input>>

\* C16: every DownloadThread is started with at least one target URL, and in
\* the collection case each is the url of the entry of the loaded preview at
\* a selected row.
C16_UrlsNotEmpty ==
    [][\A i \in Threads :
          (download_threads[i].pc = "idle" /\ download_threads'[i].pc # "idle") =>
              /\ Len(download_threads'[i].urls) >= 1
              /\ UrlsDue(download_threads'[i].urls)]_vars

\* a download of both entries of a playlist was started
C16_Witness ==
    \E i \in Threads :
        /\ download_threads[i].pc = "run"
        /\ download_threads[i].urls = <<"url_1", "url_2">>
        /\ download_threads[i].playlist

\* the height a candidate counts with: 0 when it has none
HeightDue(c) == IF c.height \in {Missing, NoneHeight} THEN 0 ELSE c.height[1]

\* url is the thumbnail due for item: the URL of a candidate of the greatest
\* height, else the 'thumbnail' field, else none
ThumbnailDue(item, url) ==
    IF item.thumbnails # <<>>
    THEN \E k \in DOMAIN item.thumbnails :
            /\ url = item.thumbnails[k].url
            /\ \A j \in DOMAIN item.thumbnails :
                  HeightDue(item.thumbnails[j]) <= HeightDue(item.thumbnails[k])
    ELSE IF item.thumbnail # Absent
    THEN url = item.thumbnail
    ELSE url = None

C18_FolderExistsAtStart ==
    [][/\ \A i \in Threads :
             (download_threads[i].pc = "idle" /\ download_threads'[i].pc # "idle") =>
                 /\ download_threads'[i].output_path = output_input'
                 /\ \/ download_threads'[i].output_path = "temp"
                    \/ download_threads'[i].output_path = "folder" /\ dir_exists'
       /\ status_log' = <<Line("failed_to_start_download")>> =>
             UNCHANGED <<download_threads, dir_exists, output_input>>]_vars

\* a download was started into the temporary directory, the folder missing
C18_Witness ==
    /\ ~dir_exists
    /\ output_input = "temp"
    /\ \E i \in Threads :
          /\ download_threads[i].pc = "run"
          /\ download_threads[i].output_path = "temp"

\* the UI thread takes the terminal signal of a download off the queue
DownloadTerminalHandled ==
    /\ event_queue # <<>>
    /\ Head(event_queue).sig \in {"finished", "download_error"}
    /\ event_queue' = Tail(event_queue)

\* a download has disabled the button and its outcome is not yet handled
DownloadHoldsButton ==
    /\ ~download_button
    /\ \E i \in Threads : DownloadInFlight(i)

\* C19: handling the terminal outcome of a download, success or failure,
\* enables the download button and starts no task; so, the worker ending,
\* every state in which a download has disabled the button is followed by
\* one in which the button is enabled.
C19_ButtonEnabledAgain ==
    /\ [][DownloadTerminalHandled =>
             /\ download_button'
             /\ ~PreviewStarted
             /\ ~DownloadStarted]_vars
    /\ DownloadHoldsButton ~> download_button

\* the failure of a download was shown and the button is enabled
C19_Witness ==
    /\ status_log = <<Line("an_error_occurred")>>
    /\ download_button
    /\ \A i \in Threads : ~DownloadInFlight(i)

\* the terminal signal of a preview task is handled after start_preview has
\* started a newer one
EarlierPreviewHandled ==
    /\ event_queue # <<>>
    /\ Head(event_queue).sig \in PreviewSignals
    /\ ~preview_threads[Head(event_queue).from].current
    /\ event_queue' = Tail(event_queue)

\* C20: once start_preview has started a new preview task, the terminal
\* callback of an earlier preview task leaves the title, the item list,
\* video_info, the loading indicator and the download button as they are, so
\* that what is shown in the end is the result of the newest preview.
C20_EarlierPreviewAbandoned ==
    [][EarlierPreviewHandled =>
          UNCHANGED <<video_title, video_list, video_info, loading_label,
                      download_button>>]_vars

\* the handler appended the line "Downloading: <percent>% at <speed>"
Emitted ==
    /\ Len(status_log') = 1
    /\ status_log'[1].kind = "downloading"

\* C21: a "downloading" event whose percentage parses is shown if and only
\* if its percentage is at least last_percentage + 0.1 or its speed is not
\* "Unknown speed"; a shown event sets last_percentage to its percentage,
\* and an event not shown leaves last_percentage, the progress bar and the
\* status log as they are.
C21_EmissionRule ==
    [][(ProgressHandled /\ Head(event_queue).arg \in ValidEvents) =>
          LET d == Head(event_queue).arg
          IN  /\ Emitted <=> \/ EventPercent(d) >= last_percentage + Threshold
                             \/ d \in KnownSpeedEvents
              /\ Emitted => last_percentage' = EventPercent(d)
              /\ ~Emitted =>
                    /\ UNCHANGED <<last_percentage, progress_bar>>
                    /\ status_log' = NoLines]_vars

\* 25.0% with unknown speed was shown over 10.05%
C21_Witness ==
    /\ last_percentage = 2500
    /\ replaced_percentage = 1005
    /\ status_log # NoLines
    /\ status_log[1].kind = "downloading"
    /\ status_log[1].speed = UnknownSpeed

\* the events whose percentage text float() rejects, and that text as the
\* handler shows it
InvalidEvents == {"unparsable"}

RawPercentText(d) == <<"U", "n", "k", "n", "o", "w", "n">>

\* C22: a "downloading" event whose percentage text does not parse is still
\* shown, as a line that carries the raw text and is marked invalid;
\* last_percentage and the progress bar are left as they are, so that later
\* events are compared with the last valid percentage.
C22_InvalidPercentageShown ==
    [][(ProgressHandled /\ Head(event_queue).arg \in InvalidEvents) =>
          /\ Len(status_log') = 1
          /\ status_log'[1].kind = "downloading_invalid"
          /\ status_log'[1].percent = RawPercentText(Head(event_queue).arg)
          /\ UNCHANGED <<last_percentage, progress_bar>>]_vars

\* the invalid line was appended while 10.12% was the last valid percentage
C22_Witness ==
    /\ status_log # NoLines
    /\ status_log[1].kind = "downloading_invalid"
    /\ last_percentage = 1012
    /\ progress_bar = 10

\* the preview result on display was taken as a collection and has an entry
CollectionLoaded ==
    video_title = "playlist" /\ video_info # <<>>

\* C23: a download is dispatched as a collection (playlist set, the urls of
\* the selected entries) exactly when the platform is YouTube and the loaded
\* preview result was taken as a collection, of one entry or of more;
\* otherwise it is dispatched as a single item with the URL typed.
C23_CollectionDispatch ==
    [][\A i \in Threads :
          (download_threads[i].pc = "idle" /\ download_threads'[i].pc # "idle") =>
              LET t == download_threads'[i]
              IN  IF platform_combo = "YouTube" /\ CollectionLoaded
                  THEN /\ t.playlist
                       /\ Len(t.urls) = Cardinality(video_list.selected)
                       /\ \A k \in DOMAIN t.urls :
                             \E row \in video_list.selected :
                                t.urls[k] = EntryUrl(video_info[row])
                  ELSE /\ ~t.playlist
                       /\ t.urls = <<url_input>>]_vars

\* C24: when the terminal signal of a download task (finished or error) is
\* handled, every progress event the task emitted has been handled and its
\* run has ended, a failed first attempt and its retry included: no
\* progress event of the task is queued, and none can follow.
C24_ProgressBeforeTerminal ==
    [][DownloadTerminalHandled =>
          LET i == Head(event_queue).from
          IN  /\ PendingProgress(i) = 0
              /\ download_threads[i].pc = "finished"
              /\ download_threads'[i].pc = "idle"]_vars

\* the failure of a retried download is about to be handled, both progress
\* events of the task handled before it
C24_Witness ==
    /\ event_queue # <<>>
    /\ Head(event_queue).sig = "download_error"
    /\ LET i == Head(event_queue).from
       IN  /\ download_threads[i].calls = 2
           /\ download_threads[i].progress = MaxProgress
           /\ PendingProgress(i) = 0
    /\ last_percentage = 1005

\* C25: in every reachable state, whatever the order of preview starts,
\* preview outcomes and download outcomes, the download button is enabled
\* only while video_info holds the result of a preview.
C25_ButtonOnlyWithPreview ==
    download_button => video_info # <<>>

====
